---- MODULE Spec2Model ----
(***************************************************************************)
(* MATQseq/remultiplex.py: parallel FASTQ remultiplexing.                  *)
(*                                                                         *)
(* A string is a sequence of one-character strings, so that concatenation  *)
(* (barcode + sequence), strip() and the "\n" terminators are computed.    *)
(* A file is a sequence of raw lines, each ending in "\n".                 *)
(***************************************************************************)
EXTENDS Integers, Sequences, FiniteSets, TLC

\* ------------------------------------------------------------------ bounds
MaxFiles == 2
MaxRecords == 2
MaxChunk == 2
MaxCores == 2
MaxBarcodeLen == 1
MaxNumFiles == 17
MaxHarnessLen == 2

\* ----------------------------------------------------------------- helpers
Min(a, b) == IF a < b THEN a ELSE b

RECURSIVE Pow(_, _)
Pow(b, e) == IF e = 0 THEN 1 ELSE b * Pow(b, e - 1)

\* s[:n] of Python for n >= 0
Slice(s, n) == SubSeq(s, 1, Min(n, Len(s)))

Whitespace == {" ", "\n", "\t", "\r"}

\* str.strip(): drop leading and trailing whitespace
RECURSIVE lstrip(_)
lstrip(s) == IF s # <<>> /\ Head(s) \in Whitespace THEN lstrip(Tail(s)) ELSE s

RECURSIVE rstrip(_)
rstrip(s) ==
    IF s # <<>> /\ s[Len(s)] \in Whitespace THEN rstrip(SubSeq(s, 1, Len(s) - 1)) ELSE s

strip(s) == rstrip(lstrip(s))

\* ------------------------------------------------------- generate_barcodes
nucleotides_reordered == <<"A", "C", "G", "T">>

nucleotides == <<"A", "T", "C", "G">>

\* itertools.product(pool, repeat=n): the tuples in odometer order, the
\* rightmost position advancing fastest
RECURSIVE product(_, _)
product(pool, repeat) ==
    IF repeat = 0 THEN << <<>> >>
    ELSE LET prev == product(pool, repeat - 1)
             n == Len(pool)
         IN  [k \in 1..(Len(prev) * n) |->
                 Append(prev[((k - 1) \div n) + 1], pool[((k - 1) % n) + 1])]

\* the for loop of generate_barcodes: append, then break once enough
RECURSIVE barcode_loop(_, _, _, _)
barcode_loop(combos, i, acc, num_files) ==
    IF i > Len(combos) THEN acc
    ELSE LET barcodes == Append(acc, combos[i])
         IN  IF Len(barcodes) >= num_files THEN barcodes
             ELSE barcode_loop(combos, i + 1, barcodes, num_files)

generate_barcodes(num_files, barcode_length) ==
    Slice(barcode_loop(product(nucleotides, barcode_length), 1, <<>>, num_files),
          num_files)

\* ----------------------------------------------------- process_single_file
\* A file is [name, lines, fail_at]: fail_at = 0 reads cleanly; fail_at = k > 0
\* makes the k-th I/O operation on it raise (operation 1 is the open, operation
\* j + 1 the j-th readline).
NoFail == 0

\* f.readline(): the next raw line, '' at end of input
readline(file, pos) == IF pos <= Len(file.lines) THEN file.lines[pos] ELSE <<>>

Raises(file, op) == file.fail_at # NoFail /\ file.fail_at = op

\* 'I' * len(barcode)
QualityPad(barcode) == [i \in 1..Len(barcode) |-> "I"]

tag_record_suffix(barcode, header, sequence, quality_header, quality) ==
    <<header, sequence \o barcode, quality_header, quality \o QualityPad(barcode)>>

tag_record(barcode, header, sequence, quality_header, quality) ==
    <<header, barcode \o sequence, quality_header, QualityPad(barcode) \o quality>>

\* what the except branch returns
on_read_error_partial(sequences) == sequences

on_read_error(sequences) == <<>>

RECURSIVE read_loop_no_break(_, _, _, _, _, _)
read_loop_no_break(file, barcode, chunk_size, pos, count, sequences) ==
    IF ~(count < chunk_size) THEN [sequences |-> sequences, error |-> FALSE]
    ELSE IF \E j \in 0..3 : Raises(file, pos + 1 + j)
    THEN [sequences |-> on_read_error(sequences), error |-> TRUE]
    ELSE read_loop_no_break(file, barcode, chunk_size, pos + 4, count + 1,
                            Append(sequences,
                                   tag_record(barcode, strip(readline(file, pos)),
                                              strip(readline(file, pos + 1)),
                                              strip(readline(file, pos + 2)),
                                              strip(readline(file, pos + 3)))))

\* the while loop; pos is the 1-based index of the next line to read.  Gives
\* [sequences, error]: error is TRUE when the except branch printed.
RECURSIVE read_loop(_, _, _, _, _, _)
read_loop(file, barcode, chunk_size, pos, count, sequences) ==
    IF ~(count < chunk_size) THEN [sequences |-> sequences, error |-> FALSE]
    ELSE IF Raises(file, pos + 1)
    THEN [sequences |-> on_read_error(sequences), error |-> TRUE]
    ELSE LET header == strip(readline(file, pos))
         IN  IF header = <<>> THEN [sequences |-> sequences, error |-> FALSE]
             ELSE IF \E j \in 1..3 : Raises(file, pos + 1 + j)
             THEN [sequences |-> on_read_error(sequences), error |-> TRUE]
             ELSE LET sequence == strip(readline(file, pos + 1))
                      quality_header == strip(readline(file, pos + 2))
                      quality == strip(readline(file, pos + 3))
                  IN  read_loop(file, barcode, chunk_size, pos + 4, count + 1,
                                Append(sequences,
                                       tag_record(barcode, header, sequence,
                                                  quality_header, quality)))

run_single_file(file, barcode, chunk_size) ==
    IF Raises(file, 1) THEN [sequences |-> on_read_error(<<>>), error |-> TRUE]
    ELSE read_loop(file, barcode, chunk_size, 1, 0, <<>>)

process_single_file(file, barcode, chunk_size) ==
    run_single_file(file, barcode, chunk_size).sequences

\* ------------------------------------------------------------- input files
Digit == <<"1", "2", "3", "4", "5", "6", "7", "8", "9">>

Bases(r) == IF r % 2 = 1 THEN <<"A", "C">> ELSE <<"G">>
Quals(r) == IF r % 2 = 1 THEN <<"#", "5">> ELSE <<"F">>

\* the four raw lines of record r of file f
RecordLines(f, r) ==
    << <<"@", Digit[f], Digit[r], "\n">>, Bases(r) \o <<"\n">>,
       <<"+", "\n">>, Quals(r) \o <<"\n">> >>

\* the first n lines of file f's record stream
FileLines(f, n) == [j \in 1..n |-> RecordLines(f, ((j - 1) \div 4) + 1)[((j - 1) % 4) + 1]]

FileName(f) == <<"f", Digit[f]>>

\* ------------------------------------------------------------------- state
VARIABLES
    fastq_files,      \* main: the input files, in get_file_stats order
    barcode_length,   \* args.barcode_length
    cores,            \* args.cores
    chunk_size,       \* args.chunk_size
    pc,               \* where main / process_files_parallel stands
    exit_status,      \* -1 while running, then the process's exit status
    barcodes,         \* main: the list generate_barcodes returned
    mapping_file,     \* the rows of the barcode mapping file
    output,           \* the raw lines of the output destination
    out_src,          \* history: for each output line, the file it was written for
    fut,              \* per file, the state of its future
    result,           \* per file, the list its worker returned
    attempts,         \* history: per file, how often a worker began it
    handled,          \* history: per file, how often as_completed yielded it
    arrival,          \* history: the files in the order their futures finished
    ac_finished,      \* as_completed: futures already finished at its start
    ac_queue,         \* as_completed: waiter.finished_futures, in finishing order
    ac_pending,       \* as_completed: futures not yet yielded
    cur,              \* the loop variable future (0: none)
    wi,               \* outf.write calls made for the current batch
    outf,             \* files for whose batch an append handle is open
    total_sequences,
    processed_files,
    log,              \* what was printed: a set of <<kind, file index>>
    gb_args,          \* a call of generate_barcodes: <<num_files, barcode_length>>
    gb_state,         \* "pending", "returned" or "error"
    gb_ret,
    ps_args,          \* a call of process_single_file: <<file, barcode, chunk_size>>
    ps_state,         \* "pending" or "returned"
    ps_ret

main_vars == <<fastq_files, barcode_length, cores, chunk_size, pc, exit_status,
               barcodes, mapping_file, output, out_src, fut, result, attempts,
               handled, arrival, ac_finished, ac_queue, ac_pending, cur, wi, outf,
               total_sequences, processed_files, log>>
gb_vars == <<gb_args, gb_state, gb_ret>>
ps_vars == <<ps_args, ps_state, ps_ret>>
vars == <<main_vars, gb_vars, ps_vars>>

FileIds == 1..MaxFiles
NumFiles == Len(fastq_files)

\* what the destination may hold before the run: nothing, or an older record
StaleRecord == << <<"@", "o", "\n">>, <<"T", "\n">>, <<"+", "\n">>, <<"!", "\n">> >>

\* the files a run may be given at position f of the file list: empty, one
\* record, one record and two more lines, MaxRecords records, and MaxRecords
\* records with the read raising after the first
FileChoices(f) ==
    {[name |-> FileName(f), lines |-> FileLines(f, n), fail_at |-> NoFail] :
        n \in {0, 4, 6, 4 * MaxRecords}}
    \cup {[name |-> FileName(f), lines |-> FileLines(f, 4 * MaxRecords), fail_at |-> 6]}

\* the file lists of n files
RECURSIVE FileLists(_)
FileLists(n) ==
    IF n = 0 THEN {<<>>}
    ELSE {Append(fs, file) : fs \in FileLists(n - 1), file \in FileChoices(n)}

\* the raw lines write_sequences_to_file writes for a batch
BatchLines_reversed(sequences) ==
    [j \in 1..(4 * Len(sequences)) |->
        sequences[Len(sequences) - ((j - 1) \div 4)][((j - 1) % 4) + 1] \o <<"\n">>]

BatchLines(sequences) ==
    [j \in 1..(4 * Len(sequences)) |->
        sequences[((j - 1) \div 4) + 1][((j - 1) % 4) + 1] \o <<"\n">>]

\* ------------------------------------------------------------------- Init
InitHarnessIdle ==
    /\ gb_args = <<0, 0>> /\ gb_state = "pending" /\ gb_ret = <<>>
    /\ ps_args = <<[name |-> FileName(1), lines |-> <<>>, fail_at |-> NoFail], <<>>, 1>>
    /\ ps_state = "pending" /\ ps_ret = <<>>

InitMainIdle ==
    /\ fastq_files = <<>>
    /\ barcode_length = 0 /\ cores = 1 /\ chunk_size = 1
    /\ pc = "start" /\ exit_status = -1
    /\ barcodes = <<>> /\ mapping_file = <<>>
    /\ output = <<>> /\ out_src = <<>>
    /\ fut = [f \in FileIds |-> "new"]
    /\ result = [f \in FileIds |-> <<>>]
    /\ attempts = [f \in FileIds |-> 0]
    /\ handled = [f \in FileIds |-> 0]
    /\ arrival = <<>>
    /\ ac_finished = {} /\ ac_queue = <<>> /\ ac_pending = {}
    /\ cur = 0 /\ wi = 0 /\ outf = {}
    /\ total_sequences = 0 /\ processed_files = 0
    /\ log = {}

Init ==
    /\ \E n \in 0..MaxFiles : fastq_files \in FileLists(n)
    /\ barcode_length \in {0, MaxBarcodeLen}
    /\ cores \in {1, MaxCores}
    /\ chunk_size \in {1, MaxChunk}
    /\ pc = "start" /\ exit_status = -1
    /\ barcodes = <<>> /\ mapping_file = <<>>
    /\ output \in {<<>>, StaleRecord}
    /\ out_src = [j \in 1..Len(output) |-> 0]
    /\ fut = [f \in FileIds |-> "new"]
    /\ result = [f \in FileIds |-> <<>>]
    /\ attempts = [f \in FileIds |-> 0]
    /\ handled = [f \in FileIds |-> 0]
    /\ arrival = <<>>
    /\ ac_finished = {} /\ ac_queue = <<>> /\ ac_pending = {}
    /\ cur = 0 /\ wi = 0 /\ outf = {}
    /\ total_sequences = 0 /\ processed_files = 0
    /\ log = {}
    /\ InitHarnessIdle

\* ------------------------------------------------------------------- main
\* lines 179-183: no input file, main returns
GetFileStats ==
    /\ pc = "start"
    /\ IF NumFiles = 0
       THEN pc' = "exit" /\ exit_status' = 0 /\ log' = log \cup {<<"no_files", 0>>}
       ELSE pc' = "generate" /\ UNCHANGED <<exit_status, log>>
    /\ UNCHANGED <<fastq_files, arrival, barcode_length, cores, chunk_size, barcodes,
                   mapping_file, output, out_src, fut, result, attempts, handled,
                   ac_finished, ac_queue, ac_pending, cur, wi, outf,
                   total_sequences, processed_files, gb_vars, ps_vars>>

\* line 196
GenerateBarcodes ==
    /\ pc = "generate"
    /\ barcodes' = generate_barcodes(NumFiles, barcode_length)
    /\ pc' = "mapping"
    /\ UNCHANGED <<fastq_files, arrival, barcode_length, cores, chunk_size, exit_status,
                   mapping_file, output, out_src, fut, result, attempts, handled,
                   ac_finished, ac_queue, ac_pending, cur, wi, outf,
                   total_sequences, processed_files, log, gb_vars, ps_vars>>

\* lines 199-201 and 206-207: the dict pairs the i-th file name with
\* barcodes[i] and keeps insertion order, one row is written per item
barcode_mapping_reversed(files, bcs) ==
    [i \in 1..Len(files) |-> <<files[i].name, bcs[Len(files) + 1 - i]>>]

barcode_mapping_none(files, bcs) == <<>>

barcode_mapping(files, bcs) ==
    [i \in 1..Len(files) |-> <<files[i].name, bcs[i]>>]

\* lines 199-208: barcodes[i] raises IndexError when the list is too short, and
\* nothing catches it; else the rows are written, one per file, in list order
\* (the names of the files of one directory are distinct, so the dict keeps them)
WriteMapping ==
    /\ pc = "mapping"
    /\ IF Len(barcodes) < NumFiles
       THEN /\ pc' = "exit" /\ exit_status' = 1
            /\ log' = log \cup {<<"IndexError", 0>>}
            /\ UNCHANGED mapping_file
       ELSE /\ mapping_file' = barcode_mapping(fastq_files, barcodes)
            /\ pc' = "create_output"
            /\ UNCHANGED <<exit_status, log>>
    /\ UNCHANGED <<fastq_files, arrival, barcode_length, cores, chunk_size, barcodes,
                   output, out_src, fut, result, attempts, handled,
                   ac_finished, ac_queue, ac_pending, cur, wi, outf,
                   total_sequences, processed_files, gb_vars, ps_vars>>

\* ------------------------------------------------- process_files_parallel
\* gzip.open(output_file, 'wt'): the content after opening for writing
open_wt_keeps(content) == content

open_wt(content) == <<>>

\* lines 88-89
CreateOutput ==
    /\ pc = "create_output"
    /\ output' = open_wt(output)
    /\ out_src' = [j \in 1..Len(output') |-> 0]
    /\ pc' = "submit"
    /\ UNCHANGED <<fastq_files, arrival, barcode_length, cores, chunk_size, exit_status,
                   barcodes, mapping_file, fut, result, attempts, handled,
                   ac_finished, ac_queue, ac_pending, cur, wi, outf,
                   total_sequences, processed_files, log, gb_vars, ps_vars>>

Submitted == {f \in 1..NumFiles : fut[f] # "new"}

\* lines 101-103: one executor.submit per (file, barcode) of the zip
Submit ==
    /\ pc = "submit"
    /\ LET n == Min(NumFiles, Len(barcodes))
           i == Cardinality(Submitted) + 1
       IN  /\ i <= n
           /\ fut' = [fut EXCEPT ![i] = "pending"]
           /\ pc' = IF i = n THEN "as_completed" ELSE "submit"
    /\ UNCHANGED <<fastq_files, arrival, barcode_length, cores, chunk_size, exit_status,
                   barcodes, mapping_file, output, out_src, result, attempts,
                   handled, ac_finished, ac_queue, ac_pending, cur, wi, outf,
                   total_sequences, processed_files, log, gb_vars, ps_vars>>

Running == {f \in FileIds : fut[f] = "running"}
Finished == {f \in FileIds : fut[f] = "finished"}

\* the pool runs at most max_workers work items at once
SlotFree_never_released == Cardinality(Running \cup Finished) < cores

SlotFree == Cardinality(Running) < cores

\* a worker process takes the oldest queued work item
WorkerStart(f) ==
    /\ pc # "exit"
    /\ fut[f] = "pending"
    /\ \A g \in 1..(f - 1) : fut[g] # "pending"
    /\ SlotFree
    /\ fut' = [fut EXCEPT ![f] = "running"]
    /\ attempts' = [attempts EXCEPT ![f] = @ + 1]
    /\ UNCHANGED <<fastq_files, arrival, barcode_length, cores, chunk_size, pc, exit_status,
                   barcodes, mapping_file, output, out_src, result, handled,
                   ac_finished, ac_queue, ac_pending, cur, wi, outf,
                   total_sequences, processed_files, log, gb_vars, ps_vars>>

\* as_completed has installed its waiter on the futures
WaiterInstalled == pc \in {"wait", "result", "writing"}

\* lines 101-102: the arguments submitted for the f-th pair of the zip
WorkUnit_first_barcode(f) == <<fastq_files[f], barcodes[1], chunk_size>>

WorkUnit(f) == <<fastq_files[f], barcodes[f], chunk_size>>

\* the worker returns from process_single_file and the future is set; a
\* future that finishes under an installed waiter is queued in finishing order
WorkerFinish(f) ==
    /\ pc # "exit"
    /\ fut[f] = "running"
    /\ LET args == WorkUnit(f)
           r == run_single_file(args[1], args[2], args[3])
       IN  /\ result' = [result EXCEPT ![f] = r.sequences]
           /\ log' = IF r.error THEN log \cup {<<"read_error", f>>} ELSE log
    /\ fut' = [fut EXCEPT ![f] = "finished"]
    /\ ac_queue' = IF WaiterInstalled THEN Append(ac_queue, f) ELSE ac_queue
    /\ arrival' = Append(arrival, f)
    /\ UNCHANGED <<fastq_files, barcode_length, cores, chunk_size, pc, exit_status,
                   barcodes, mapping_file, output, out_src, attempts, handled,
                   ac_finished, ac_pending, cur, wi, outf,
                   total_sequences, processed_files, gb_vars, ps_vars>>

\* line 106, as_completed(future_to_file) begins: the futures already finished
\* form a set, the others are pending
AsCompleted ==
    /\ pc = "as_completed"
    /\ ac_finished' = Submitted \cap Finished
    /\ ac_pending' = Submitted
    /\ pc' = "wait"
    /\ UNCHANGED <<fastq_files, arrival, barcode_length, cores, chunk_size, exit_status,
                   barcodes, mapping_file, output, out_src, fut, result, attempts,
                   handled, ac_queue, cur, wi, outf,
                   total_sequences, processed_files, log, gb_vars, ps_vars>>

\* the loop asks as_completed for the next future only between two bodies
LoopReady_while_writing == pc \in {"wait", "writing"}

LoopReady == pc = "wait"

\* a yielded future leaves the futures still to yield
Yielded_kept(S, f) == S

Yielded(S, f) == S \ {f}

\* the waiter's list is reversed and popped from its end: the place in
\* finishing order of the queued future yielded next
QueuedNext_newest(q) == Len(q)

QueuedNext(q) == 1

\* the list without its p-th entry
Popped(q, p) == [k \in 1..(Len(q) - 1) |-> IF k < p THEN q[k] ELSE q[k + 1]]

\* line 106-107: the next finished future: any of the initially finished set,
\* then the queued ones in finishing order
NextFuture ==
    /\ LoopReady
    /\ \E f \in ac_pending :
        /\ IF ac_finished \cap ac_pending # {}
           THEN f \in ac_finished
           ELSE ac_queue # <<>> /\ f = ac_queue[QueuedNext(ac_queue)]
        /\ ac_queue' = IF f \in ac_finished THEN ac_queue
                       ELSE Popped(ac_queue, QueuedNext(ac_queue))
        /\ ac_pending' = Yielded(ac_pending, f)
        /\ handled' = [handled EXCEPT ![f] = @ + 1]
        /\ cur' = f
    /\ pc' = "result"
    /\ UNCHANGED <<fastq_files, arrival, barcode_length, cores, chunk_size, exit_status,
                   barcodes, mapping_file, output, out_src, fut, result, attempts,
                   ac_finished, wi, outf,
                   total_sequences, processed_files, log, gb_vars, ps_vars>>

\* gzip.open(output_file, 'at'): the content after opening for appending
open_at_truncates(content) == <<>>

open_at(content) == content

\* lines 109-110, 115-116 and the open of line 77
HandleResult ==
    /\ pc = "result"
    /\ IF result[cur] # <<>>
       THEN /\ outf' = outf \cup {cur}
            /\ output' = open_at(output)
            /\ out_src' = SubSeq(out_src, 1, Len(output'))
            /\ wi' = 0
            /\ pc' = "writing"
            /\ UNCHANGED log
       ELSE /\ log' = log \cup {<<"no_sequences", cur>>}
            /\ pc' = "wait"
            /\ UNCHANGED <<outf, wi, output, out_src>>
    /\ UNCHANGED <<fastq_files, arrival, barcode_length, cores, chunk_size, exit_status,
                   barcodes, mapping_file, fut, result, attempts,
                   handled, ac_finished, ac_queue, ac_pending, cur,
                   total_sequences, processed_files, gb_vars, ps_vars>>

\* lines 78-82: one outf.write
WriteLine ==
    /\ pc = "writing"
    /\ wi < 4 * Len(result[cur])
    /\ output' = Append(output, BatchLines(result[cur])[wi + 1])
    /\ out_src' = Append(out_src, cur)
    /\ wi' = wi + 1
    /\ UNCHANGED <<fastq_files, arrival, barcode_length, cores, chunk_size, pc, exit_status,
                   barcodes, mapping_file, fut, result, attempts, handled,
                   ac_finished, ac_queue, ac_pending, cur, outf,
                   total_sequences, processed_files, log, gb_vars, ps_vars>>

\* the with block of line 77 ends, then lines 112-114
CloseBatch ==
    /\ pc = "writing"
    /\ wi = 4 * Len(result[cur])
    /\ outf' = outf \ {cur}
    /\ wi' = 0
    /\ total_sequences' = total_sequences + Len(result[cur])
    /\ processed_files' = processed_files + 1
    /\ log' = log \cup {<<"processed", cur>>}
    /\ pc' = "wait"
    /\ UNCHANGED <<fastq_files, arrival, barcode_length, cores, chunk_size, exit_status,
                   barcodes, mapping_file, output, out_src, fut, result, attempts,
                   handled, ac_finished, ac_queue, ac_pending, cur, gb_vars, ps_vars>>

\* the open or a write of lines 77-82 raises (the destination is full, gone,
\* read-only): the with block closes the handle, lines 117-118 print, and the
\* loop goes on
WriteError ==
    /\ pc = "writing"
    /\ wi < 4 * Len(result[cur])
    /\ outf' = outf \ {cur}
    /\ log' = log \cup {<<"write_error", cur>>}
    /\ pc' = "wait"
    /\ wi' = 0
    /\ UNCHANGED <<fastq_files, arrival, barcode_length, cores, chunk_size, exit_status,
                   barcodes, mapping_file, output, out_src, fut, result, attempts,
                   handled, ac_finished, ac_queue, ac_pending, cur,
                   total_sequences, processed_files, gb_vars, ps_vars>>

\* KeyboardInterrupt inside process_files_parallel: except Exception does not
\* catch it, the with blocks close the handle and the pool, lines 235-237 exit
Interrupt ==
    /\ pc \in {"create_output", "submit", "as_completed", "wait", "result", "writing"}
    /\ outf' = {}
    /\ log' = log \cup {<<"interrupted", 0>>}
    /\ pc' = "exit" /\ exit_status' = 1
    /\ UNCHANGED <<fastq_files, arrival, barcode_length, cores, chunk_size,
                   barcodes, mapping_file, output, out_src, fut, result, attempts,
                   handled, ac_finished, ac_queue, ac_pending, cur, wi,
                   total_sequences, processed_files, gb_vars, ps_vars>>

\* as_completed is exhausted: line 120 returns, main prints the summary
Return ==
    /\ pc = "wait"
    /\ ac_pending = {}
    /\ log' = log \cup {<<"complete", total_sequences>>}
    /\ pc' = "exit" /\ exit_status' = 0
    /\ UNCHANGED <<fastq_files, arrival, barcode_length, cores, chunk_size,
                   barcodes, mapping_file, output, out_src, fut, result, attempts,
                   handled, ac_finished, ac_queue, ac_pending, cur, wi, outf,
                   total_sequences, processed_files, gb_vars, ps_vars>>

Coordinator ==
    \/ GetFileStats \/ GenerateBarcodes \/ WriteMapping \/ CreateOutput
    \/ Submit \/ AsCompleted \/ NextFuture \/ HandleResult
    \/ WriteLine \/ CloseBatch \/ Return

Worker(f) == WorkerStart(f) \/ WorkerFinish(f)

\* the run with a sound destination and no interrupt
Next == Coordinator \/ \E f \in FileIds : Worker(f)

Spec == Init /\ [][Next]_vars

\* the same, scheduled: while the main thread or a worker process can take a
\* step, one of them eventually does
FairSpec == Init /\ [][Next]_vars /\ WF_vars(Next)

\* the run under destination errors and interrupts
NextFaults == Next \/ WriteError \/ Interrupt

SpecFaults == Init /\ [][NextFaults]_vars

\* ------------------------------------------- generate_barcodes, on its own
InitBarcodes ==
    /\ InitMainIdle
    /\ gb_args \in (0..MaxNumFiles) \X (0..MaxHarnessLen)
    /\ gb_state = "pending" /\ gb_ret = <<>>
    /\ ps_args = <<[name |-> FileName(1), lines |-> <<>>, fail_at |-> NoFail], <<>>, 1>>
    /\ ps_state = "pending" /\ ps_ret = <<>>

\* the function has no raise: every call returns its list
CallGenerateBarcodes ==
    /\ gb_state = "pending"
    /\ gb_ret' = generate_barcodes(gb_args[1], gb_args[2])
    /\ gb_state' = "returned"
    /\ UNCHANGED <<gb_args, main_vars, ps_vars>>

SpecBarcodes == InitBarcodes /\ [][CallGenerateBarcodes]_vars

\* ----------------------------------------- process_single_file, on its own
TaggerBarcodes == {<<>>, <<"T">>, <<"C", "G">>}

InitTagger ==
    /\ InitMainIdle
    /\ gb_args = <<0, 0>> /\ gb_state = "pending" /\ gb_ret = <<>>
    /\ \E n \in 0..(4 * MaxRecords + 3) : \E k \in 0..(n + 2) :
         \E b \in TaggerBarcodes : \E c \in 1..MaxChunk :
           ps_args = <<[name |-> FileName(1), lines |-> FileLines(1, n), fail_at |-> k], b, c>>
    /\ ps_state = "pending" /\ ps_ret = <<>>

CallProcessSingleFile ==
    /\ ps_state = "pending"
    /\ ps_ret' = process_single_file(ps_args[1], ps_args[2], ps_args[3])
    /\ ps_state' = "returned"
    /\ UNCHANGED <<ps_args, main_vars, gb_vars>>

SpecTagger == InitTagger /\ [][CallProcessSingleFile]_vars

\* ================================================================== claims
Range(s) == {s[i] : i \in DOMAIN s}

\* ---- C7
SymbolRank(c) == CASE c = "A" -> 0 [] c = "T" -> 1 [] c = "C" -> 2 [] c = "G" -> 3

\* s before t in the lexicographic order of equal-length strings under A<T<C<G
LexLess(s, t) ==
    \E i \in 1..Len(s) :
        /\ \A j \in 1..(i - 1) : s[j] = t[j]
        /\ SymbolRank(s[i]) < SymbolRank(t[i])

BarcodeStrings(L) == [1..L -> {"A", "T", "C", "G"}]

\* C7: for N <= 4^L, generate_barcodes(N, L) returns exactly N strings of
\* length L over {A,T,C,G}, strictly increasing in the lexicographic order
\* under A<T<C<G and with no string of that order skipped: the first N strings
\* of the enumeration, hence pairwise distinct and the same list on every call.
C7_FirstNLexicographic ==
    (gb_state = "returned" /\ gb_args[1] <= Pow(4, gb_args[2])) =>
        LET N == gb_args[1]
            L == gb_args[2]
        IN  /\ Len(gb_ret) = N
            /\ \A i \in 1..N : gb_ret[i] \in BarcodeStrings(L)
            /\ \A i \in 1..N : \A j \in (i + 1)..N : LexLess(gb_ret[i], gb_ret[j])
            /\ \A i \in 1..N : \A s \in BarcodeStrings(L) :
                   LexLess(s, gb_ret[i]) => s \in Range(gb_ret)

C7_Witness ==
    /\ gb_state = "returned"
    /\ gb_args = <<6, 2>>
    /\ Len(gb_ret) = 6
    /\ gb_ret[5] = <<"T", "A">>

\* ---- C8
\* C8: for N > 4^L, barcode generation reports a configuration error; it does
\* not return a list (which could only hold duplicates or fewer than N).
C8_ConfigError ==
    (gb_state # "pending" /\ gb_args[1] > Pow(4, gb_args[2])) => gb_state = "error"

\* ---- C9
\* C9: a file of 4k + r lines, 1 <= r <= 3 and k < chunk_size, read without
\* failure, gives exactly k tagged records: the trailing partial record is
\* discarded.
C9_PartialDiscarded ==
    (ps_state = "returned" /\ ps_args[1].fail_at = NoFail) =>
        LET n == Len(ps_args[1].lines)
            k == n \div 4
        IN  (n % 4 # 0 /\ k < ps_args[3]) => Len(ps_ret) = k

\* ------------------------------------------------ the run: shared notions
\* the output lines written for file f (f = 0: held before the run), in order
WrittenFor(f) ==
    LET tagged == [i \in 1..Len(output) |-> <<out_src[i], output[i]>>]
        sel == SelectSeq(tagged, LAMBDA p : p[1] = f)
    IN  [i \in 1..Len(sel) |-> sel[i][2]]

RECURSIVE SumResults(_)
SumResults(n) == IF n = 0 THEN 0 ELSE Len(result[n]) + SumResults(n - 1)

\* process_files_parallel was called / has returned
Called == pc \in {"submit", "as_completed", "wait", "result", "writing"}
Returned == pc = "exit" /\ exit_status = 0 /\ NumFiles > 0

\* the read of file f raises
ReadFails(f) == run_single_file(fastq_files[f], barcodes[f], chunk_size).error

\* ---- C1
\* C1: at most one append handle on the destination is open at any instant,
\* and the lines written for one batch are contiguous in the output: no line
\* of another batch lies between two lines of the same batch.
C1_OneWriterContiguous ==
    /\ Cardinality(outf) <= 1
    /\ \A i \in 1..Len(out_src) : \A j \in (i + 1)..Len(out_src) :
           out_src[i] = out_src[j] => \A k \in i..j : out_src[k] = out_src[i]

C1_Witness ==
    /\ Returned /\ NumFiles = 2 /\ cores = 2
    /\ Len(result[1]) = 2 /\ Len(result[2]) = 2
    /\ out_src = <<2, 2, 2, 2, 2, 2, 2, 2, 1, 1, 1, 1, 1, 1, 1, 1>>

\* ---- C2
Written(f) == WrittenFor(f) = BatchLines(result[f]) /\ f \notin outf

\* C2: with a sound destination and no interrupt, whenever main gets as far as
\* calling process_files_parallel the run eventually reaches the state where
\* the call has returned and every worker's batch, each non-empty one
\* included, stands appended in full to the output.
C2_EventuallyWritten ==
    <>(/\ pc = "exit"
       /\ (NumFiles > 0 /\ Len(barcodes) = NumFiles) =>
              /\ exit_status = 0
              /\ \A f \in 1..NumFiles : fut[f] = "finished" /\ Written(f))

C2_Witness ==
    /\ Returned /\ NumFiles = 2 /\ cores = 1
    /\ result[1] # <<>> /\ result[2] # <<>>
    /\ Written(1) /\ Written(2)

\* ---- C3
\* C3: one work unit per input file and none else; a worker begins each at
\* most once, as_completed yields each future at most once, and no more lines
\* are ever written for a file than its one batch holds; when
\* process_files_parallel returns each file was begun and yielded exactly once.
C3_AttemptedOnce ==
    /\ \A f \in FileIds : attempts[f] <= 1 /\ handled[f] <= 1
    /\ \A f \in FileIds : f > NumFiles => fut[f] = "new"
    /\ pc \in {"as_completed", "wait", "result", "writing"} => Submitted = 1..NumFiles
    /\ \A f \in FileIds : Len(WrittenFor(f)) <= 4 * Len(result[f])
    /\ Returned => \A f \in 1..NumFiles : attempts[f] = 1 /\ handled[f] = 1

C3_Witness ==
    /\ Returned /\ NumFiles = 2
    /\ \A f \in 1..2 : attempts[f] = 1 /\ handled[f] = 1 /\ Len(WrittenFor(f)) = 8

\* ---- C4
\* C4: a file whose read raises has no line in the output, at any time; when
\* process_files_parallel returns, every file read without failure has
\* exactly its tagged records in the output; a run in which a read failed
\* still ends with exit status 0; and from the moment processing starts every
\* file, failing or not, has its row in the mapping.
C4_ReadFailureIsolated ==
    /\ (Called \/ pc = "exit") =>
           \A f \in 1..Len(barcodes) : WrittenFor(f) # <<>> => ~ReadFails(f)
    /\ Returned =>
           \A f \in 1..NumFiles :
               ~ReadFails(f) =>
                   WrittenFor(f) = BatchLines(process_single_file(fastq_files[f],
                                                                  barcodes[f], chunk_size))
    /\ (pc = "exit" /\ \E f \in FileIds : <<"read_error", f>> \in log) => exit_status = 0
    /\ Called =>
           /\ Len(mapping_file) = NumFiles
           /\ \A f \in 1..NumFiles : mapping_file[f] = <<fastq_files[f].name, barcodes[f]>>

C4_Witness ==
    /\ Returned /\ NumFiles = 2
    /\ ReadFails(1) /\ <<"read_error", 1>> \in log /\ WrittenFor(1) = <<>>
    /\ fastq_files[1].lines = FileLines(1, 8)
    /\ ~ReadFails(2) /\ Len(WrittenFor(2)) = 8
    /\ Len(mapping_file) = 2

\* ---- C5
\* C5: when process_files_parallel returns, every well-formed file read
\* without failure has all its records in the output, also when it holds more
\* than chunk_size records.
C5_FullFileCoverage ==
    Returned =>
        \A f \in 1..NumFiles :
            (fastq_files[f].fail_at = NoFail /\ Len(fastq_files[f].lines) % 4 = 0) =>
                Len(WrittenFor(f)) = Len(fastq_files[f].lines)

\* ---- C6
\* C6: when process_files_parallel returns, the output holds exactly the
\* batches the workers returned, each once and whole, and nothing it held
\* before the run; the returned total is the output's record count.
C6_OutputIsSum ==
    Returned =>
        /\ Len(output) = 4 * SumResults(NumFiles)
        /\ \A f \in 1..NumFiles : WrittenFor(f) = BatchLines(result[f])
        /\ WrittenFor(0) = <<>>
        /\ 4 * total_sequences = Len(output)
        /\ <<"complete", total_sequences>> \in log

C6_Witness ==
    /\ Returned /\ NumFiles = 2
    /\ Len(result[1]) = 2 /\ Len(result[2]) = 1
    /\ total_sequences = 3 /\ Len(output) = 12
    /\ fastq_files[1].fail_at = NoFail /\ fastq_files[2].fail_at = NoFail

\* ---- C10
\* C10: whenever no append is in progress, the lines written for each batch
\* are a whole number of 4-line records, also after an interrupt or a
\* destination error cut an append short.
C10_CompleteRecordsOnly ==
    (outf = {} /\ (Called \/ pc = "exit")) =>
        \A f \in FileIds : Len(WrittenFor(f)) % 4 = 0

\* ---- C11
\* the rank of a barcode in the enumeration of its length: its base-4 value
\* under A=0, T=1, C=2, G=3
RECURSIVE BarcodeValue(_)
BarcodeValue(s) ==
    IF s = <<>> THEN 0
    ELSE 4 * BarcodeValue(SubSeq(s, 1, Len(s) - 1)) + SymbolRank(s[Len(s)])

\* the mapping file has been written
MappingWritten == pc = "create_output" \/ Called \/ Returned

\* C11: once written, and in every later state whatever the worker count and
\* the order in which the workers finish, the mapping file holds exactly one
\* row per input file, in file-list order, the i-th row pairing the i-th file
\* name with the i-th barcode of the enumeration of length barcode_length: its
\* content is fixed by the file list and the barcode length alone.
C11_MappingInFileOrder ==
    MappingWritten =>
        /\ Len(mapping_file) = NumFiles
        /\ \A i \in 1..NumFiles :
               /\ mapping_file[i][1] = fastq_files[i].name
               /\ mapping_file[i][2] \in BarcodeStrings(barcode_length)
               /\ BarcodeValue(mapping_file[i][2]) = i - 1

C11_Witness ==
    /\ Returned /\ NumFiles = 2 /\ cores = 2
    /\ out_src # <<>> /\ out_src[1] = 2 /\ out_src[Len(out_src)] = 1
    /\ mapping_file = <<<<FileName(1), <<"A">>>>, <<FileName(2), <<"T">>>>>>

\* ---- C12
\* an append to the destination has failed
WriteFailed == \E f \in FileIds : <<"write_error", f>> \in log

\* C12: a failed append to the destination is fatal: after it the coordinator
\* takes up no further result and writes no further batch, and the run ends
\* with a non-zero exit status.
C12_WriteErrorFatal ==
    WriteFailed =>
        /\ pc \notin {"result", "writing"}
        /\ pc = "exit" => exit_status # 0

\* ---- C13
\* a raw line without its line terminator: the field it carries
Chomp(line) ==
    IF line # <<>> /\ line[Len(line)] = "\n" THEN SubSeq(line, 1, Len(line) - 1) ELSE line

\* C13: for every record process_single_file returns with barcode B from a
\* complete input record whose sequence and quality have equal length, the
\* tagged sequence is B followed by the original sequence, the tagged quality
\* is len(B) symbols 'I' followed by the original quality, both have the
\* original length plus len(B), and header and quality-header are the input's.
C13_TaggedFields ==
    ps_state = "returned" =>
        \A i \in 1..Len(ps_ret) :
            4 * i <= Len(ps_args[1].lines) =>
                LET B == ps_args[2]
                    header == Chomp(ps_args[1].lines[4 * i - 3])
                    sequence == Chomp(ps_args[1].lines[4 * i - 2])
                    quality_header == Chomp(ps_args[1].lines[4 * i - 1])
                    quality == Chomp(ps_args[1].lines[4 * i])
                    t == ps_ret[i]
                IN  Len(sequence) = Len(quality) =>
                        /\ Len(t) = 4
                        /\ t[1] = header /\ t[3] = quality_header
                        /\ Len(t[2]) = Len(sequence) + Len(B)
                        /\ Len(t[4]) = Len(t[2])
                        /\ SubSeq(t[2], 1, Len(B)) = B
                        /\ SubSeq(t[2], Len(B) + 1, Len(t[2])) = sequence
                        /\ \A j \in 1..Len(B) : t[4][j] = "I"
                        /\ SubSeq(t[4], Len(B) + 1, Len(t[4])) = quality

C13_Witness ==
    /\ ps_state = "returned"
    /\ ps_args[2] = <<"C", "G">>
    /\ Len(ps_ret) = 2
    /\ ps_ret[1] = << <<"@", "1", "1">>, <<"C", "G", "A", "C">>, <<"+">>, <<"I", "I", "#", "5">> >>
    /\ ps_ret[2][2] = <<"C", "G", "G">> /\ ps_ret[2][4] = <<"I", "I", "F">>

\* ---- C14
\* C14: within a file order is kept: the i-th record a worker returned carries
\* the header of the i-th record of its input file, and the j-th line written
\* for a file is line j of its batch taken record by record, field by field,
\* so the records of one file stand in the output in their input order.
C14_OrderPreserved ==
    \A f \in 1..NumFiles :
        /\ fut[f] = "finished" =>
               \A i \in 1..Len(result[f]) :
                   result[f][i][1] = Chomp(fastq_files[f].lines[4 * i - 3])
        /\ LET written == WrittenFor(f)
           IN  \A j \in 1..Len(written) :
                   written[j] =
                       result[f][((j - 1) \div 4) + 1][((j - 1) % 4) + 1] \o <<"\n">>

C14_Witness ==
    /\ Returned /\ NumFiles = 2
    /\ Len(WrittenFor(1)) = 8
    /\ out_src[1] = 2
    /\ WrittenFor(1)[1] = <<"@", "1", "1", "\n">>
    /\ WrittenFor(1)[5] = <<"@", "1", "2", "\n">>

\* ---- C15
\* file f is empty and reads without failure
EmptyFile(f) == fastq_files[f].lines = <<>> /\ fastq_files[f].fail_at = NoFail

\* C15: an empty input file gives an empty batch and no error: its worker
\* returns no record and prints no read error, no line is ever written for it
\* and it is never counted as processed; when process_files_parallel returns
\* it was reported as holding no sequences, the exit status is 0 and every
\* other file has exactly its own batch in the output.
C15_EmptyFileNoRecords ==
    \A f \in 1..NumFiles :
        EmptyFile(f) =>
            /\ <<"read_error", f>> \notin log
            /\ <<"processed", f>> \notin log
            /\ fut[f] = "finished" => result[f] = <<>>
            /\ WrittenFor(f) = <<>>
            /\ Returned =>
                   /\ <<"no_sequences", f>> \in log
                   /\ exit_status = 0
                   /\ \A g \in 1..NumFiles :
                          fut[g] = "finished" /\ WrittenFor(g) = BatchLines(result[g])

C15_Witness ==
    /\ Returned /\ NumFiles = 2
    /\ EmptyFile(1) /\ <<"no_sequences", 1>> \in log
    /\ fastq_files[2].lines = FileLines(2, 8) /\ fastq_files[2].fail_at = NoFail
    /\ Len(output) = 4 * chunk_size
    /\ <<"processed", 2>> \in log

\* ---- C16
\* the place of file f in finishing order, and of its first line in the output
ArrivalPos(f) == CHOOSE i \in 1..Len(arrival) : arrival[i] = f
FirstLine(f) == CHOOSE i \in 1..Len(out_src) : out_src[i] = f /\ \A j \in 1..(i - 1) : out_src[j] # f

\* a's result was available before b's
ArrivedBefore(a, b) ==
    /\ a \in Range(arrival) /\ b \in Range(arrival)
    /\ ArrivalPos(a) < ArrivalPos(b)

\* a's batch stands in the output before b's
AppendedBefore(a, b) ==
    /\ a \in Range(out_src) /\ b \in Range(out_src)
    /\ FirstLine(a) < FirstLine(b)

Held == {f \in 1..NumFiles : fut[f] = "running" \/ (fut[f] = "finished" /\ result[f] # <<>>)}

\* C17: while process_files_parallel runs, the files whose batch is being
\* read or is still held number at most num_cores.
C17_PoolBoundsHeld == Called => Cardinality(Held) <= cores

\* ---- C18
\* C18: the mapping file is written only after the last batch append: while
\* a line of a batch is still to be appended, no mapping file exists yet.
C18_MappingAfterBatches ==
    (pc = "writing" /\ wi < 4 * Len(result[cur])) => mapping_file = <<>>

\* C18, amended: the mapping file is written before process_files_parallel is
\* called: from the creation of the output on it holds its row for every
\* input file, and while it does not exist no work unit was submitted and no
\* line was appended to the output.
C18_MappingBeforeBatches ==
    /\ (pc = "create_output" \/ Called \/ Returned) =>
           NumFiles > 0 /\ Len(mapping_file) = NumFiles
    /\ mapping_file = <<>> =>
           /\ \A f \in FileIds : fut[f] = "new"
           /\ \A i \in 1..Len(out_src) : out_src[i] = 0

C18_Witness ==
    /\ pc = "writing" /\ wi = 1
    /\ NumFiles = 2 /\ Len(mapping_file) = 2
    /\ Len(output) = 1 /\ out_src = <<cur>>

\* ---- C19
\* s is an initial part of t
IsPrefix(s, t) == Len(s) <= Len(t) /\ SubSeq(t, 1, Len(s)) = s

\* every result was handled
AllHandled == pc = "exit" \/ (pc = "wait" /\ ac_pending = {})

\* C19: the output is left alone until the step that creates it empty, which
\* comes before the first submit; every step after that leaves the content of
\* the state before it as an initial part of the content after it, so the
\* output is never emptied or rewritten again; and once the last result was
\* handled no step changes it.
C19_AppendOnly ==
    [][/\ pc \in {"start", "generate", "mapping"} => output' = output
       /\ pc = "create_output" => (Submitted = {} /\ (pc' = "submit" => output' = <<>>))
       /\ Submitted' # {} => pc \notin {"start", "generate", "mapping", "create_output"}
       /\ (Called \/ pc = "exit") => IsPrefix(output, output')
       /\ AllHandled => output' = output]_vars

C19_Witness ==
    /\ Returned /\ NumFiles = 2
    /\ WrittenFor(0) = <<>>
    /\ Len(WrittenFor(1)) = 4 /\ Len(WrittenFor(2)) = 8
    /\ out_src[1] = 1 /\ out_src[5] = 2

\* ---- C20
\* C20: when the files number at most 4^barcode_length, the barcodes of the
\* mapping are pairwise distinct and every sequence line written for a file f
\* begins with the barcode the mapping gives f and with that of no other
\* file: its first barcode_length symbols name its source file, in every
\* state and for every completion order.
C20_BarcodeIdentifiesFile ==
    (MappingWritten /\ NumFiles <= Pow(4, barcode_length)) =>
        /\ \A f \in 1..NumFiles : \A g \in 1..NumFiles :
               f # g => mapping_file[f][2] # mapping_file[g][2]
        /\ \A i \in 1..Len(output) :
               (out_src[i] # 0 /\ i % 4 = 2) =>
                   LET prefix == SubSeq(output[i], 1, barcode_length)
                   IN  /\ Len(output[i]) > barcode_length
                       /\ \A g \in 1..NumFiles :
                              prefix = mapping_file[g][2] <=> g = out_src[i]

C20_Witness ==
    /\ Returned /\ NumFiles = 2 /\ barcode_length = 1
    /\ Len(output) = 8
    /\ out_src[2] = 2 /\ output[2] = <<"T", "A", "C", "\n">>
    /\ out_src[6] = 1 /\ output[6] = <<"A", "A", "C", "\n">>

====
